---- MODULE Spec2Model ----
(***************************************************************************)
(* Model of scripts/check_go_errors.py: a linter that scans Go files for   *)
(* fmt.Errorf("...") call sites and reports every line whose message does  *)
(* not start with "failed to".                                             *)
(*                                                                         *)
(* Text is modelled as sequences of one-character strings, so the regular  *)
(* expression, str.startswith, str.strip and the f-strings are computed on *)
(* characters.  The file system and the I/O failures are the environment.  *)
(***************************************************************************)
EXTENDS Integers, Sequences, FiniteSets, TLC

(***************************************************************************)
(* Bounds of the model.                                                    *)
(***************************************************************************)
\* Most paths on the command line.
MaxArgs == 2
\* Most lines in a file of the multi-file inputs.
MaxLines == 2
\* Most call sites on one line of the single-line inputs.
MaxCalls == 2

(***************************************************************************)
(* Characters and text helpers.                                            *)
(***************************************************************************)
QUOTE == "\""
BACKSLASH == "\\"
NEWLINE == "\n"

\* The characters str.strip() removes when called without argument.
Whitespace == {" ", "\t", "\n", "\r", "\f"}

DigitChars == <<"0", "1", "2", "3", "4", "5", "6", "7", "8", "9">>

RECURSIVE Str(_)
\* str(n) of a natural number, as the f-string's {i} renders it.
Str(n) ==
    IF n < 10 THEN <<DigitChars[n + 1]>>
    ELSE Str(n \div 10) \o <<DigitChars[(n % 10) + 1]>>

RECURSIVE LStrip(_)
LStrip(s) ==
    IF s # <<>> /\ Head(s) \in Whitespace THEN LStrip(Tail(s)) ELSE s

RECURSIVE RStrip(_)
RStrip(s) ==
    IF s # <<>> /\ s[Len(s)] \in Whitespace
    THEN RStrip(SubSeq(s, 1, Len(s) - 1))
    ELSE s

\* line.strip()
Strip(s) == RStrip(LStrip(s))

\* Whether text t occurs in text s.
Contains(s, t) ==
    \E p \in 1..(Len(s) - Len(t) + 1) : SubSeq(s, p, p + Len(t) - 1) = t

\* Faulty variant of StartsWith: the test written as  prefix in s.
StartsWithSubstring(s, prefix) == Contains(s, prefix)

\* s.startswith(prefix): exact, case-sensitive, no trimming.
StartsWith(s, prefix) ==
    /\ Len(prefix) <= Len(s)
    /\ SubSeq(s, 1, Len(prefix)) = prefix

RECURSIVE Flatten(_)
Flatten(ss) == IF ss = <<>> THEN <<>> ELSE Head(ss) \o Flatten(Tail(ss))

SeqsUpTo(S, n) == UNION {[1..m -> S] : m \in 0..n}

(***************************************************************************)
(* The program's constants.                                                *)
(***************************************************************************)
REQUIRED_WORDING ==
    <<"f","a","i","l","e","d"," ","t","o">>

\* The literal part of ERROR_PATTERN, fmt\.Errorf\(" : every character of
\* it is escaped or ordinary, so it matches itself only.
PatternLiteral ==
    <<"f","m","t",".","E","r","r","o","r","f","(","\"">>

UsagePrefix ==
    <<"U","s","a","g","e",":"," ">>
UsageSuffix ==
    <<" ","<","f","i","l","e","1",".","g","o",">"," ","<","f","i","l","e","2",
      ".","g","o",">"," ",".",".",".">>
HeaderPrefix ==
    <<"E","r","r","o","r"," ","i","n"," ">>
HeaderMiddle ==
    <<":"," ","T","h","e"," ","f","o","l","l","o","w","i","n","g"," ","e","r",
      "r","o","r"," ","m","e","s","s","a","g","e","s"," ","d","o"," ","n","o",
      "t"," ","s","t","a","r","t"," ","w","i","t","h"," ","'">>
HeaderSuffix ==
    <<"'",":">>
NotFoundEntry ==
    <<"0",":","F","i","l","e"," ","n","o","t"," ","f","o","u","n","d",":"," ">>
NotFoundDiag ==
    <<"E","r","r","o","r",":"," ","F","i","l","e"," ","n","o","t"," ","f","o",
      "u","n","d",":"," ">>
ProcessingEntry ==
    <<"0",":","E","r","r","o","r"," ","p","r","o","c","e","s","s","i","n","g",
      " ","f","i","l","e",":"," ">>
ProcessingDiag ==
    <<"E","r","r","o","r"," ","p","r","o","c","e","s","s","i","n","g"," ","f",
      "i","l","e"," ">>

(***************************************************************************)
(* ERROR_PATTERN = fmt\.Errorf\("([^"]+)" and re.search.                   *)
(***************************************************************************)
NoMatch == [found |-> FALSE, start |-> 0, group1 |-> <<>>]

\* Faulty variant of GroupLengths: the group written ([^"]*), which may be empty.
GroupLengthsStar(line, b) ==
    {n \in 0..(Len(line) - b) :
        /\ \A j \in b..(b + n - 1) : line[j] # QUOTE
        /\ line[b + n] = QUOTE}

\* The lengths n >= 1 for which ([^"]+)" matches at position b: n characters
\* other than the double quote, then a double quote.
GroupLengths(line, b) ==
    {n \in 1..(Len(line) - b) :
        /\ \A j \in b..(b + n - 1) : line[j] # QUOTE
        /\ line[b + n] = QUOTE}

Longest(S) == CHOOSE n \in S : \A m \in S : m <= n

\* The pattern tried at start position s: the literal, then the greedy
\* group (the longest run that still lets the closing quote match).
MatchAt(line, s) ==
    LET b == s + Len(PatternLiteral)
    IN  IF /\ b - 1 <= Len(line)
           /\ SubSeq(line, s, b - 1) = PatternLiteral
           /\ GroupLengths(line, b) # {}
        THEN [found  |-> TRUE,
              start  |-> s,
              group1 |-> SubSeq(line, b, b + Longest(GroupLengths(line, b)) - 1)]
        ELSE NoMatch

RECURSIVE SearchFrom(_, _)
SearchFrom(line, s) ==
    IF s > Len(line) THEN NoMatch
    ELSE IF MatchAt(line, s).found THEN MatchAt(line, s)
    ELSE SearchFrom(line, s + 1)

RECURSIVE SearchDownFrom(_, _)
SearchDownFrom(line, s) ==
    IF s < 1 THEN NoMatch
    ELSE IF MatchAt(line, s).found THEN MatchAt(line, s)
    ELSE SearchDownFrom(line, s - 1)

\* Faulty variant of Search: the last match of the line instead of the first.
SearchLast(line) == SearchDownFrom(line, Len(line))

\* ERROR_PATTERN.search(line): the match at the leftmost start position.
Search(line) == SearchFrom(line, 1)

\* f"{i}:{line.strip()}"
FormatEntry(i, line) == Str(i) \o <<":">> \o Strip(line)

\* The body of the for loop of check_file: invalid_lines after line i.
ScanLine(acc, i, line) ==
    LET match == Search(line)
    IN  IF match.found /\ ~StartsWith(match.group1, REQUIRED_WORDING)
        THEN Append(acc, FormatEntry(i, line))
        ELSE acc

(***************************************************************************)
(* The inputs: command lines and file systems.                             *)
(***************************************************************************)
Prog == <<"l","i","n","t">>
PathA == <<"a",".","g","o">>
PathB == <<"b",".","g","o">>
Paths == {PathA, PathB}

\* str(e) of the exceptions open() and the read can raise.
OpenFailures == {<<"E","A","C","C","E","S">>}
ReadFailures == {<<"c","o","d","e","c">>}

Missing == [exists |-> FALSE, lines |-> <<>>]
File(ls) == [exists |-> TRUE, lines |-> ls]

CallHead == <<"f","m","t",".","E","r","r","o","r","f","(">>

\* Message texts between the quotes of a call site.
Messages ==
    { <<>>,
      REQUIRED_WORDING,
      REQUIRED_WORDING \o <<" ","x">>,
      <<" ">> \o REQUIRED_WORDING,
      <<"F","a","i","l","e","d"," ","t","o">>,
      <<"f","a","i","l","e","d"," ","t">>,
      <<"x">>,
      <<"x", BACKSLASH, QUOTE, "y">> }

\* Call sites: closed literals, literals with no closing quote, a call with
\* no literal and a call whose name differs in the dot.
CallSites ==
    {CallHead \o <<QUOTE>> \o m \o <<QUOTE, ")">> : m \in Messages}
    \cup {CallHead \o <<QUOTE>> \o m \o <<")">> : m \in {<<"x">>, REQUIRED_WORDING}}
    \cup { CallHead \o <<"x", ")">>,
           <<"f","m","t","_","E","r","r","o","r","f","(", QUOTE, "x", QUOTE, ")">> }

\* Single lines: up to MaxCalls call sites, bare or surrounded by white space.
RichLines ==
    LET bodies == {Flatten(ss) : ss \in SeqsUpTo(CallSites, MaxCalls)}
    IN  bodies \cup {<<"\t", " ">> \o b \o <<" ">> : b \in bodies}

\* x := fmt.Errorf("failed to read")
GoodLine ==
    <<"x"," ",":","="," ">> \o CallHead
    \o <<QUOTE,"f","a","i","l","e","d"," ","t","o"," ","r","e","a","d",QUOTE,")">>
\* y := fmt.Errorf("could not write")
BadLine ==
    <<"y"," ",":","="," ">> \o CallHead
    \o <<QUOTE,"c","o","u","l","d"," ","n","o","t"," ","w","r","i","t","e",QUOTE,")">>
\* z := 5
PlainLine == <<"z"," ",":","="," ","5">>
\* An offending line with white space around it.
PaddedBadLine == <<"\t">> \o CallHead \o <<QUOTE, "x", QUOTE, ")", " ">>

SmallLines == {GoodLine, BadLine, PlainLine, PaddedBadLine}

\* Files of up to MaxLines lines.
SmallFiles == {File(ls) : ls \in SeqsUpTo(SmallLines, MaxLines)}

\* Files of at most one line, and no file.
TinyFiles == {Missing, File(<<>>), File(<<GoodLine>>), File(<<PaddedBadLine>>)}

(***************************************************************************)
(* The state.                                                              *)
(***************************************************************************)
VARIABLES
    sys_argv,       \* sys.argv: the program name, then the paths
    fs,             \* the file system: path -> Missing or File(lines)
    pc,             \* "main", "loop", "scan", "returned", "exited"
    exit_code,      \* main's exit_code, -1 while unbound
    filepaths,      \* main's filepaths
    k,              \* position of the for loop of main in filepaths
    handles,        \* the open file handles (the number of the call that opened each)
    i,              \* check_file's line counter
    line,           \* check_file's line, <<>> while unbound
    match,          \* check_file's match, NoMatch when None or unbound
    invalid_lines,  \* check_file's invalid_lines
    errors,         \* main's errors: what check_file returned
    stdout,         \* the lines printed to sys.stdout
    stderr,         \* the lines printed to sys.stderr
    status,         \* the status passed to sys.exit, -1 while running
    calls,          \* history: the paths check_file was called with
    results         \* history: per call, how check_file returned

vars == <<sys_argv, fs, pc, exit_code, filepaths, k, handles, i, line, match,
          invalid_lines, errors, stdout, stderr, status, calls, results>>

Start ==
    /\ pc = "main"
    /\ exit_code = -1
    /\ filepaths = <<>>
    /\ k = 0
    /\ handles = {}
    /\ i = 0
    /\ line = <<>>
    /\ match = NoMatch
    /\ invalid_lines = <<>>
    /\ errors = <<>>
    /\ stdout = <<>>
    /\ stderr = <<>>
    /\ status = -1
    /\ calls = <<>>
    /\ results = <<>>

\* Up to MaxArgs paths, each no file or a file of at most one line.
InitManyPaths ==
    /\ sys_argv \in {<<Prog>> \o args : args \in SeqsUpTo(Paths, MaxArgs)}
    /\ fs \in [Paths -> TinyFiles]
    /\ Start

\* One file of up to MaxLines lines, scanned once or twice.
InitManyLines ==
    /\ sys_argv \in {<<Prog, PathA>>, <<Prog, PathA, PathA>>}
    /\ fs \in {[p \in Paths |-> IF p = PathA THEN f ELSE Missing] : f \in SmallFiles}
    /\ Start

\* One file of one line with up to MaxCalls call sites.
InitOneLine ==
    /\ sys_argv = <<Prog, PathA>>
    /\ fs \in {[p \in Paths |-> IF p = PathA THEN File(<<l>>) ELSE Missing] :
                 l \in RichLines}
    /\ Start

Init == InitManyPaths \/ InitManyLines \/ InitOneLine

(***************************************************************************)
(* main and check_file.                                                    *)
(***************************************************************************)
\* The path of the current call of check_file.
filepath == filepaths[k]

\* print(f"Usage: {sys.argv[0]} <file1.go> <file2.go> ...")
UsageLine(argv0) == UsagePrefix \o argv0 \o UsageSuffix

\* Faulty variant of ReportBlock: the closing print("") left out.
ReportBlockNoBlank(path, errs) ==
    <<HeaderPrefix \o path \o HeaderMiddle \o REQUIRED_WORDING \o HeaderSuffix>>
    \o errs

\* What main prints for a path whose errors list is not empty: the header,
\* each entry, an empty line.
ReportBlock(path, errs) ==
    <<HeaderPrefix \o path \o HeaderMiddle \o REQUIRED_WORDING \o HeaderSuffix>>
    \o errs \o << <<>> >>

\* Faulty variant of NextExitCode: exit_code assigned from the current path alone.
NextExitCodeReset(code, errs) == IF errs # <<>> THEN 1 ELSE 0

\* exit_code after the errors of one path.
NextExitCode(code, errs) == IF errs # <<>> THEN 1 ELSE code

\* Faulty variant of Close: the file opened without a with block and never closed.
CloseLeak(hs, h) == hs

\* Leaving the with block, normally or by an exception, closes the file.
Close(hs, h) == hs \ {h}

\* The record of one return of check_file: the path, the way out ("eof",
\* "not_found", "open_error", "read_error"), the lines read and the list.
Returned(path, how, read, value) ==
    [path |-> path, how |-> how, read |-> read, value |-> value]

\* Faulty variant of Usage: the usage line printed to sys.stderr.
UsageToStderr ==
    /\ pc = "main"
    /\ Len(sys_argv) < 2
    /\ stderr' = Append(stderr, UsageLine(sys_argv[1]))
    /\ status' = 1
    /\ pc' = "exited"
    /\ UNCHANGED <<sys_argv, fs, exit_code, filepaths, k, handles, i, line, match,
                   invalid_lines, errors, stdout, calls, results>>

\* Lines 53-55: no path given.
Usage ==
    /\ pc = "main"
    /\ Len(sys_argv) < 2
    /\ stdout' = Append(stdout, UsageLine(sys_argv[1]))
    /\ status' = 1
    /\ pc' = "exited"
    /\ UNCHANGED <<sys_argv, fs, exit_code, filepaths, k, handles, i, line, match,
                   invalid_lines, errors, stderr, calls, results>>

\* Lines 57-58.
Begin ==
    /\ pc = "main"
    /\ Len(sys_argv) >= 2
    /\ exit_code' = 0
    /\ filepaths' = Tail(sys_argv)
    /\ pc' = "loop"
    /\ UNCHANGED <<sys_argv, fs, k, handles, i, line, match, invalid_lines, errors,
                   stdout, stderr, status, calls, results>>

\* Faulty variant of CallOpen: invalid_lines kept from the previous call, as a
\* module-level list would be.
CallOpenNoReset ==
    /\ pc = "loop"
    /\ k < Len(filepaths)
    /\ fs[filepaths[k + 1]].exists
    /\ k' = k + 1
    /\ calls' = Append(calls, filepaths[k + 1])
    /\ i' = 0
    /\ line' = <<>>
    /\ match' = NoMatch
    /\ handles' = handles \cup {Len(calls) + 1}
    /\ pc' = "scan"
    /\ UNCHANGED <<sys_argv, fs, exit_code, filepaths, errors, stdout,
                   stderr, status, results, invalid_lines>>

\* Lines 60-61, 27-29: the next path, check_file called, the file opened.
CallOpen ==
    /\ pc = "loop"
    /\ k < Len(filepaths)
    /\ fs[filepaths[k + 1]].exists
    /\ k' = k + 1
    /\ calls' = Append(calls, filepaths[k + 1])
    /\ invalid_lines' = <<>>
    /\ i' = 0
    /\ line' = <<>>
    /\ match' = NoMatch
    /\ handles' = handles \cup {Len(calls) + 1}
    /\ pc' = "scan"
    /\ UNCHANGED <<sys_argv, fs, exit_code, filepaths, errors, stdout,
                   stderr, status, results>>

\* Lines 60-61, 27-29, 40-42: open raises FileNotFoundError.
CallNotFound ==
    /\ pc = "loop"
    /\ k < Len(filepaths)
    /\ ~fs[filepaths[k + 1]].exists
    /\ k' = k + 1
    /\ calls' = Append(calls, filepaths[k + 1])
    /\ invalid_lines' = <<>>
    /\ i' = 0
    /\ line' = <<>>
    /\ match' = NoMatch
    /\ stderr' = Append(stderr, NotFoundDiag \o filepaths[k + 1])
    /\ errors' = <<NotFoundEntry \o filepaths[k + 1]>>
    /\ results' = Append(results, Returned(filepaths[k + 1], "not_found", 0, errors'))
    /\ pc' = "returned"
    /\ UNCHANGED <<sys_argv, fs, exit_code, filepaths, handles, stdout, status>>

\* Lines 60-61, 27-29, 43-45: open raises another exception.
CallOpenError ==
    /\ pc = "loop"
    /\ k < Len(filepaths)
    /\ fs[filepaths[k + 1]].exists
    /\ \E e \in OpenFailures :
        /\ stderr' = Append(stderr,
                            ProcessingDiag \o filepaths[k + 1] \o <<":", " ">> \o e)
        /\ errors' = <<ProcessingEntry \o e>>
    /\ k' = k + 1
    /\ calls' = Append(calls, filepaths[k + 1])
    /\ invalid_lines' = <<>>
    /\ i' = 0
    /\ line' = <<>>
    /\ match' = NoMatch
    /\ results' = Append(results, Returned(filepaths[k + 1], "open_error", 0, errors'))
    /\ pc' = "returned"
    /\ UNCHANGED <<sys_argv, fs, exit_code, filepaths, handles, stdout, status>>

\* Lines 30-38: one iteration of the for loop over the file.  The iterator
\* yields each line with its line terminator.
ReadLine ==
    /\ pc = "scan"
    /\ i < Len(fs[filepath].lines)
    /\ i' = i + 1
    /\ line' = fs[filepath].lines[i + 1] \o <<NEWLINE>>
    /\ match' = Search(line')
    /\ invalid_lines' = ScanLine(invalid_lines, i', line')
    /\ UNCHANGED <<sys_argv, fs, pc, exit_code, filepaths, k, handles, errors,
                   stdout, stderr, status, calls, results>>

\* Faulty variant of ReadError: the handler returns the lines recorded so far with
\* the error entry appended.
ReadErrorKeepsLines ==
    /\ pc = "scan"
    /\ \E e \in ReadFailures :
        /\ stderr' = Append(stderr,
                            ProcessingDiag \o filepath \o <<":", " ">> \o e)
        /\ errors' = Append(invalid_lines, ProcessingEntry \o e)
    /\ handles' = Close(handles, Len(calls))
    /\ results' = Append(results, Returned(filepath, "read_error", i, errors'))
    /\ pc' = "returned"
    /\ UNCHANGED <<sys_argv, fs, exit_code, filepaths, k, i, line, match, invalid_lines,
                   stdout, status, calls>>

\* Lines 30, 43-45: reading or decoding raises, before any line or after
\* some; the with block closes the file and invalid_lines is dropped.
ReadError ==
    /\ pc = "scan"
    /\ \E e \in ReadFailures :
        /\ stderr' = Append(stderr,
                            ProcessingDiag \o filepath \o <<":", " ">> \o e)
        /\ errors' = <<ProcessingEntry \o e>>
    /\ handles' = Close(handles, Len(calls))
    /\ results' = Append(results, Returned(filepath, "read_error", i, errors'))
    /\ pc' = "returned"
    /\ UNCHANGED <<sys_argv, fs, exit_code, filepaths, k, i, line, match, invalid_lines,
                   stdout, status, calls>>

\* Lines 30, 47: the file is exhausted; the with block closes it and
\* check_file returns invalid_lines.
EndOfFile ==
    /\ pc = "scan"
    /\ i = Len(fs[filepath].lines)
    /\ handles' = Close(handles, Len(calls))
    /\ errors' = invalid_lines
    /\ results' = Append(results, Returned(filepath, "eof", i, errors'))
    /\ pc' = "returned"
    /\ UNCHANGED <<sys_argv, fs, exit_code, filepaths, k, i, line, match, invalid_lines,
                   stdout, stderr, status, calls>>

\* Faulty variant of Report: the loop left at the first path with errors.
ReportThenBreak ==
    /\ pc = "returned"
    /\ exit_code' = NextExitCode(exit_code, errors)
    /\ stdout' = IF errors # <<>>
                 THEN stdout \o ReportBlock(filepath, errors)
                 ELSE stdout
    /\ k' = IF errors # <<>> THEN Len(filepaths) ELSE k
    /\ pc' = "loop"
    /\ UNCHANGED <<sys_argv, fs, filepaths, handles, i, line, match, invalid_lines,
                   errors, stderr, status, calls, results>>

\* Lines 62-67: main's handling of what check_file returned.
Report ==
    /\ pc = "returned"
    /\ exit_code' = NextExitCode(exit_code, errors)
    /\ stdout' = IF errors # <<>>
                 THEN stdout \o ReportBlock(filepath, errors)
                 ELSE stdout
    /\ pc' = "loop"
    /\ UNCHANGED <<sys_argv, fs, filepaths, k, handles, i, line, match, invalid_lines,
                   errors, stderr, status, calls, results>>

\* Line 69.
Exit ==
    /\ pc = "loop"
    /\ k = Len(filepaths)
    /\ status' = exit_code
    /\ pc' = "exited"
    /\ UNCHANGED <<sys_argv, fs, exit_code, filepaths, k, handles, i, line, match,
                   invalid_lines, errors, stdout, stderr, calls, results>>

Next ==
    \/ Usage
    \/ Begin
    \/ CallOpen
    \/ CallNotFound
    \/ CallOpenError
    \/ ReadLine
    \/ ReadError
    \/ EndOfFile
    \/ Report
    \/ Exit

Spec == Init /\ [][Next]_vars

(***************************************************************************)
(* Vocabulary of the properties, stated on the text itself and not by the  *)
(* operators of the model above.                                           *)
(***************************************************************************)
\* The run was given at least one path.
HasPaths == Len(sys_argv) >= 2

\* The paths of the command line.
GivenPaths == SubSeq(sys_argv, 2, Len(sys_argv))

\* The returns of check_file that main has already handled.
Handled ==
    IF pc = "returned" THEN SubSeq(results, 1, Len(results) - 1) ELSE results

\* The file was read to its end.
Readable(r) == r.how = "eof"

\* A return that marks the run as failed: a file that could not be read, or
\* a list that is not empty.
Failing(r) == ~Readable(r) \/ r.value # <<>>

\* The position of an entry's first colon, its line number and its text.
ColonAt(e) == CHOOSE p \in 1..Len(e) : e[p] = ":" /\ \A q \in 1..(p - 1) : e[q] # ":"
DigitValue(c) == CHOOSE d \in 0..9 : DigitChars[d + 1] = c
RECURSIVE ParseNat(_)
ParseNat(ds) ==
    IF ds = <<>> THEN 0
    ELSE 10 * ParseNat(SubSeq(ds, 1, Len(ds) - 1)) + DigitValue(ds[Len(ds)])
EntryLineNo(e) == ParseNat(SubSeq(e, 1, ColonAt(e) - 1))
EntryText(e) == SubSeq(e, ColonAt(e) + 1, Len(e))

\* The entries of a list that carry line number n.
EntriesOf(value, n) == {j \in DOMAIN value : EntryLineNo(value[j]) = n}

\* Text l holds fmt.Errorf(" from position s.
LiteralAt(l, s) ==
    /\ s >= 1
    /\ s + 11 <= Len(l)
    /\ \A j \in 1..12 : l[s + j - 1] = PatternLiteral[j]

\* The call-site pattern occurs in text l from position s, its closing
\* double quote at position e: fmt.Errorf(" at s, then at least one
\* character and no double quote up to e.
OccursAt(l, s, e) ==
    /\ LiteralAt(l, s)
    /\ e <= Len(l)
    /\ e > s + 12
    /\ l[e] = QUOTE
    /\ \A j \in (s + 12)..(e - 1) : l[j] # QUOTE

Occurrences(l) ==
    {s \in 1..Len(l) : LiteralAt(l, s) /\ \E e \in (s + 13)..Len(l) : OccursAt(l, s, e)}
HasOccurrence(l) == Occurrences(l) # {}
FirstOccurrence(l) == CHOOSE s \in Occurrences(l) : \A t \in Occurrences(l) : s <= t

\* The message captured by the occurrence at s.
CaptureAt(l, s) ==
    LET e == CHOOSE x \in (s + 13)..Len(l) : OccursAt(l, s, x)
    IN  SubSeq(l, s + 12, e - 1)

\* The message begins with the nine characters f a i l e d space t o.
BeginsWithRequired(c) ==
    /\ Len(c) >= 9
    /\ \A j \in 1..9 : c[j] = REQUIRED_WORDING[j]

\* The first occurrence on the line fails the prefix rule.
Offending(l) ==
    HasOccurrence(l) /\ ~BeginsWithRequired(CaptureAt(l, FirstOccurrence(l)))

\* Text t is text l without its leading and trailing white space: t sits
\* in l from some position a, only white space lies before and after it,
\* and t neither begins nor ends with white space.
IsTrimOf(t, l) ==
    \E a \in 1..(Len(l) + 1) :
        /\ \A j \in 1..(a - 1) : l[j] \in Whitespace
        /\ a + Len(t) - 1 <= Len(l)
        /\ \A j \in 1..Len(t) : l[a + j - 1] = t[j]
        /\ \A j \in (a + Len(t))..Len(l) : l[j] \in Whitespace
        /\ t # <<>> => (t[1] \notin Whitespace /\ t[Len(t)] \notin Whitespace)

\* The lines of the file a return is about.
LinesOf(r) == fs[r.path].lines

\* The returns up to the j-th that report a file that could not be read.
FailedUpTo(j) == {m \in 1..j : ~Readable(results[m])}

\* The number of lines main prints for one return, and for a sequence of
\* returns.
BlockLen(r) == IF r.value = <<>> THEN 0 ELSE Len(r.value) + 2

RECURSIVE OutLen(_)
OutLen(rs) == IF rs = <<>> THEN 0 ELSE BlockLen(Head(rs)) + OutLen(Tail(rs))

\* The line being scanned and the match found on it are bound.
Scanning == pc = "scan" /\ i >= 1

\* No double quote follows the opening quote of the literal at s.
Unclosed(l, s) ==
    LiteralAt(l, s) /\ \A j \in (s + 12)..Len(l) : l[j] # QUOTE

\* The literal at s holds an escaped double quote: the first double quote
\* after its opening quote, at e, follows a backslash.
EscapedQuoteAt(l, s, e) ==
    /\ LiteralAt(l, s)
    /\ e > s + 12
    /\ e <= Len(l)
    /\ l[e] = QUOTE
    /\ l[e - 1] = BACKSLASH
    /\ \A j \in (s + 12)..(e - 1) : l[j] # QUOTE

HasEscapedQuote(l, s) == \E e \in (s + 13)..Len(l) : EscapedQuoteAt(l, s, e)

\* Every capture is a non-empty span of the one line, holds no double quote
\* and no line break, and is directly followed by a double quote.
CaptureIsSimpleSpan ==
    (Scanning /\ match.found) =>
        LET b == match.start + 12
            n == Len(match.group1)
        IN  /\ n >= 1
            /\ LiteralAt(line, match.start)
            /\ b + n <= Len(line)
            /\ match.group1 = SubSeq(line, b, b + n - 1)
            /\ \A j \in 1..n : match.group1[j] \notin {QUOTE, NEWLINE}
            /\ line[b + n] = QUOTE

\* The pattern does not match at a literal with no closing quote on the line.
UnclosedNeverMatched ==
    Scanning =>
        \A s \in 1..Len(line) :
            Unclosed(line, s) => ~(match.found /\ match.start = s)

(***************************************************************************)
(* C1.  For a command line with at least one path, the process exits with  *)
(* status 0 exactly when every path was readable and check_file returned   *)
(* an empty list for each, and with status 1 otherwise; while the run goes *)
(* on, exit_code is 1 exactly when one of the paths handled so far failed, *)
(* so no later path resets it.                                             *)
(***************************************************************************)
ExitStatusMatchesOutcome ==
    HasPaths =>
        /\ pc \in {"loop", "scan", "returned", "exited"} =>
             (exit_code = 1 <=> \E j \in DOMAIN Handled : Failing(Handled[j]))
        /\ pc \in {"loop", "scan", "returned", "exited"} => exit_code \in {0, 1}
        /\ pc = "exited" =>
             /\ Len(results) = Len(GivenPaths)
             /\ status \in {0, 1}
             /\ status = 0 <=>
                  \A j \in DOMAIN results :
                      Readable(results[j]) /\ results[j].value = <<>>
             /\ status = 1 <=>
                  \E j \in DOMAIN results :
                      ~Readable(results[j]) \/ results[j].value # <<>>

\* A failing path followed by a clean one: the run still exits with 1.
C1_Witness ==
    /\ pc = "exited"
    /\ Len(results) = 2
    /\ Failing(results[1])
    /\ Readable(results[2])
    /\ results[2].value = <<>>
    /\ status = 1

(***************************************************************************)
(* C3.  check_file is called once per path, one call at a time, in the     *)
(* order of the command line, whatever the earlier paths returned.         *)
(***************************************************************************)
EveryPathScannedInOrder ==
    /\ Len(calls) <= Len(GivenPaths)
    /\ calls = SubSeq(GivenPaths, 1, Len(calls))
    /\ Len(calls) - Len(results) \in {0, 1}
    /\ Len(calls) - Len(results) = 1 <=> pc = "scan"
    /\ (pc = "exited" /\ HasPaths) => calls = GivenPaths

\* The first path could not be read and the second was scanned all the same.
C3_Witness ==
    /\ pc = "exited"
    /\ Len(calls) = 2
    /\ ~Readable(results[1])
    /\ Readable(results[2])

(***************************************************************************)
(* C5.  With no path, main prints the usage line to standard output and    *)
(* exits with status 1; check_file is never called and no file is opened.  *)
(***************************************************************************)
NoPathsPrintsUsage ==
    ~HasPaths =>
        /\ calls = <<>>
        /\ handles = {}
        /\ stderr = <<>>
        /\ pc \in {"main", "exited"}
        /\ pc = "exited" =>
             /\ status = 1
             /\ Len(stdout) = 1
             /\ \A j \in 1..5 : stdout[1][j] = <<"U","s","a","g","e">>[j]
             /\ Contains(stdout[1], sys_argv[1])

C5_Witness ==
    /\ ~HasPaths
    /\ pc = "exited"
    /\ stdout # <<>>

(***************************************************************************)
(* C10.  The file handle is released on every way out of check_file: at    *)
(* most one handle is open at any time, it is the one of the call in       *)
(* progress, and none is open once check_file has returned or the process  *)
(* has exited.                                                             *)
(***************************************************************************)
HandleReleasedOnEveryPath ==
    /\ Cardinality(handles) <= 1
    /\ pc = "scan" => handles = {Len(calls)}
    /\ pc # "scan" => handles = {}

\* A second file is open after the scan of the first one failed mid-read.
C10_Witness ==
    /\ pc = "scan"
    /\ Len(calls) = 2
    /\ handles = {2}
    /\ results[1].how = "read_error"
    /\ results[1].read >= 1

(***************************************************************************)
(* C2.  In the list check_file returns for a readable file, a line on      *)
(* which the pattern occurs has an entry exactly when the message captured *)
(* by its first occurrence does not begin with "failed to" (compared as    *)
(* written, without trimming; a message equal to the prefix complies), and *)
(* then exactly one entry, carrying the line's 1-based number.  A file     *)
(* with no occurrence on any line yields the empty list.                   *)
(***************************************************************************)
ViolationsFollowPrefixRule ==
    \A j \in DOMAIN results :
        Readable(results[j]) =>
            LET r == results[j]
                ls == LinesOf(results[j])
            IN  /\ \A n \in 1..Len(ls) :
                       HasOccurrence(ls[n]) =>
                           Cardinality(EntriesOf(r.value, n)) =
                               IF Offending(ls[n]) THEN 1 ELSE 0
                /\ (\A n \in 1..Len(ls) : ~HasOccurrence(ls[n])) => r.value = <<>>

\* A two-line file: line 1 complies, line 2 does not; one entry, numbered 2.
C2_Witness ==
    \E j \in DOMAIN results :
        /\ Readable(results[j])
        /\ Len(LinesOf(results[j])) = 2
        /\ HasOccurrence(LinesOf(results[j])[1])
        /\ ~Offending(LinesOf(results[j])[1])
        /\ Offending(LinesOf(results[j])[2])
        /\ Len(results[j].value) = 1
        /\ EntryLineNo(results[j].value[1]) = 2

(***************************************************************************)
(* C4.  Every failure to open or read a file, before any line or after     *)
(* some, ends in a return of check_file (no fault escapes) with exactly    *)
(* one entry, whose line number is 0 and whose text is not empty, and with *)
(* one more line on standard error, which names the path; the run then     *)
(* exits with status 1.  No entry of a readable file carries line number   *)
(* 0.                                                                      *)
(***************************************************************************)
FailureYieldsOneZeroEntry ==
    /\ \A j \in DOMAIN results :
           ~Readable(results[j]) =>
               /\ Len(results[j].value) = 1
               /\ EntryLineNo(results[j].value[1]) = 0
               /\ EntryText(results[j].value[1]) # <<>>
               /\ Cardinality(FailedUpTo(j)) <= Len(stderr)
               /\ Contains(stderr[Cardinality(FailedUpTo(j))], results[j].path)
    /\ Len(stderr) = Cardinality(FailedUpTo(Len(results)))
    /\ \A j \in DOMAIN results :
           Readable(results[j]) =>
               \A m \in DOMAIN results[j].value :
                   EntryLineNo(results[j].value[m]) >= 1
    /\ Len(results) < Len(calls) => pc = "scan"
    /\ (pc = "exited" /\ \E j \in DOMAIN results : ~Readable(results[j]))
           => status = 1

\* The read failed after a line had already been recorded; the run exited.
C4_Witness ==
    /\ pc = "exited"
    /\ status = 1
    /\ \E j \in DOMAIN results :
           /\ results[j].how = "read_error"
           /\ results[j].read >= 1
           /\ Offending(LinesOf(results[j])[1])

\* A path that does not exist.
C4_WitnessNotFound ==
    /\ pc = "exited"
    /\ \E j \in DOMAIN results : results[j].how = "not_found"

(***************************************************************************)
(* C6.  Only the first (leftmost) occurrence on a line is considered: the  *)
(* match the scan holds is the leftmost occurrence with its message, a     *)
(* line has at most one entry, and a line whose first occurrence begins    *)
(* with "failed to" has none, whatever its later occurrences are.          *)
(***************************************************************************)
OnlyFirstOccurrenceCounts ==
    /\ (pc = "scan" /\ i >= 1) =>
           /\ match.found <=> HasOccurrence(line)
           /\ match.found =>
                  /\ match.start = FirstOccurrence(line)
                  /\ match.group1 = CaptureAt(line, FirstOccurrence(line))
    /\ \A j \in DOMAIN results :
           Readable(results[j]) =>
               \A n \in 1..Len(LinesOf(results[j])) :
                   /\ Cardinality(EntriesOf(results[j].value, n)) <= 1
                   /\ (/\ HasOccurrence(LinesOf(results[j])[n])
                       /\ ~Offending(LinesOf(results[j])[n]))
                          => EntriesOf(results[j].value, n) = {}

\* A line whose first occurrence complies and whose second does not, and
\* the empty list returned for it.
C6_Witness ==
    \E j \in DOMAIN results :
        /\ Readable(results[j])
        /\ Len(LinesOf(results[j])) = 1
        /\ LET l == LinesOf(results[j])[1]
           IN  /\ Cardinality(Occurrences(l)) >= 2
               /\ ~Offending(l)
               /\ \E s \in Occurrences(l) : ~BeginsWithRequired(CaptureAt(l, s))
        /\ results[j].value = <<>>

(***************************************************************************)
(* C7.  Standard output holds one block per handled path whose list is not *)
(* empty, in the order of the command line, and nothing for the others: a  *)
(* header line naming the path and the required prefix, the entries of the *)
(* list in their order, an empty line.  An entry of a readable file reads  *)
(* <line-number>:<text of that line without surrounding white space>.      *)
(***************************************************************************)
ReportBlocksFollowResults ==
    HasPaths =>
        /\ Len(stdout) = OutLen(Handled)
        /\ \A j \in DOMAIN Handled :
               LET r == Handled[j]
                   off == OutLen(SubSeq(Handled, 1, j - 1))
               IN  r.value # <<>> =>
                       /\ r.path = GivenPaths[j]
                       /\ Contains(stdout[off + 1], r.path)
                       /\ Contains(stdout[off + 1], REQUIRED_WORDING)
                       /\ \A m \in DOMAIN r.value : stdout[off + 1 + m] = r.value[m]
                       /\ stdout[off + Len(r.value) + 2] = <<>>
        /\ \A j \in DOMAIN results :
               Readable(results[j]) =>
                   \A m \in DOMAIN results[j].value :
                       LET n == EntryLineNo(results[j].value[m])
                       IN  /\ n \in 1..Len(LinesOf(results[j]))
                           /\ IsTrimOf(EntryText(results[j].value[m]),
                                       LinesOf(results[j])[n])

\* Two paths, the first clean and the second with one offending line that
\* has white space around it: only the second one's block, three lines.
C7_Witness ==
    /\ pc = "exited"
    /\ Len(results) = 2
    /\ Readable(results[1])
    /\ results[1].value = <<>>
    /\ Readable(results[2])
    /\ Len(results[2].value) = 1
    /\ Len(stdout) = 3
    /\ \E n \in 1..Len(LinesOf(results[2])) :
           /\ Offending(LinesOf(results[2])[n])
           /\ LinesOf(results[2])[n][1] \in Whitespace

(***************************************************************************)
(* C8 as claimed.  The pattern matches neither a literal that holds an     *)
(* escaped double quote nor a literal with no closing quote on the line,   *)
(* and every capture is a simple span.                                     *)
(***************************************************************************)
EscapedQuoteNeverMatched ==
    /\ Scanning =>
           \A s \in 1..Len(line) :
               HasEscapedQuote(line, s) => ~(match.found /\ match.start = s)
    /\ UnclosedNeverMatched
    /\ CaptureIsSimpleSpan

(***************************************************************************)
(* C8 as amended.  The pattern does not match at a literal whose opening   *)
(* quote is followed by no double quote on the line.  A literal that holds *)
(* an escaped double quote is not passed over: when it is the first        *)
(* fmt.Errorf(" of the line, the pattern matches it and the capture stops  *)
(* at the backslash before that quote.  Every capture is a non-empty span  *)
(* of the one line, holds no double quote and is directly followed by one. *)
(***************************************************************************)
CaptureStopsAtFirstQuote ==
    /\ CaptureIsSimpleSpan
    /\ UnclosedNeverMatched
    /\ Scanning =>
           \A s \in 1..Len(line) :
               (/\ HasEscapedQuote(line, s)
                /\ \A t \in 1..(s - 1) : ~LiteralAt(line, t))
                   => /\ match.found
                      /\ match.start = s
                      /\ match.group1[Len(match.group1)] = BACKSLASH

\* A literal with an escaped quote was scanned and matched up to the
\* backslash.
C8_Witness ==
    /\ Scanning
    /\ match.found
    /\ HasEscapedQuote(line, match.start)
    /\ match.group1 = <<"x", BACKSLASH>>

(***************************************************************************)
(* C9.  The list returned for a readable file is in strictly increasing    *)
(* line-number order, and two scans of the same file, which the run does   *)
(* not modify, return the same list.                                       *)
(***************************************************************************)
ListOrderedAndRepeatable ==
    /\ \A j \in DOMAIN results :
           Readable(results[j]) =>
               \A a, b \in DOMAIN results[j].value :
                   a < b => EntryLineNo(results[j].value[a])
                              < EntryLineNo(results[j].value[b])
    /\ \A j1, j2 \in DOMAIN results :
           (/\ Readable(results[j1])
            /\ Readable(results[j2])
            /\ results[j1].path = results[j2].path)
               => results[j1].value = results[j2].value

\* The same path scanned twice, with two entries each time.
C9_Witness ==
    /\ Len(results) = 2
    /\ Readable(results[1])
    /\ Readable(results[2])
    /\ results[1].path = results[2].path
    /\ Len(results[1].value) = 2
    /\ Len(results[2].value) = 2

====
